---- MODULE Spec2Model ----
(***************************************************************************)
(* Two HTTP CRUD servers over a Prisma store.                              *)
(*                                                                         *)
(*   users server    : src/unnamed/part_000 (app, shutdown) mounting the   *)
(*                     router of src/routes/users.js lines 1-83            *)
(*   products server : src/routes/users.js lines 85-296                    *)
(*                                                                         *)
(* A handler runs synchronously up to its first await (validation, then    *)
(* the store call is issued); the store executes the call atomically at    *)
(* some later moment and the handler's continuation runs with its answer.  *)
(* Strings are sequences of one-character strings.  Numbers of a product   *)
(* body are counted in halves (Half units: 2 is 1.0, 1 is 0.5), so that a  *)
(* non-integer stock can be sent.                                          *)
(***************************************************************************)
EXTENDS Integers, Sequences, FiniteSets, TLC

\* ------------------------------------------------------------- bounds
\* records each store may create (ids are 1..MaxId, never reused)
MaxId == 2
\* handlers in flight at once, per server
MaxInflight == 2
\* shutdown signals delivered to one process
MaxSignals == 2

VARIABLES
  \* users server
  users,          \* prisma.user table: id -> record
  userSeq,        \* next autoincrement id of the user table
  uReqs,          \* handlers awaiting their store call: bag of requests
  uResp,          \* the response sent last
  uListening,     \* the HTTP server accepts requests
  uSignals,       \* shutdown signals delivered so far
  uDisconnects,   \* calls of prisma.$disconnect() so far
  uDisconnecting, \* $disconnect() promises not yet resolved
  uExited,        \* process.exit(0) was called
  \* products server
  products,       \* prisma.product table: id -> record
  productSeq,     \* next autoincrement id / creation clock
  pReqs,          \* handlers awaiting a store call: bag of requests
  pResp,          \* the response sent last
  delOk,          \* per product id, DELETE requests answered 200 so far
  pListening,     \* the HTTP server accepts requests
  pSignals,       \* shutdown signals delivered so far
  closeCallbacks, \* callbacks of server.close() waiting for 'close'
  pDisconnects,   \* calls of prisma.$disconnect() so far
  pDisconnecting, \* $disconnect() promises not yet resolved
  pExited         \* process.exit(0) was called

uvars == <<users, userSeq, uReqs, uResp, uListening, uSignals,
           uDisconnects, uDisconnecting, uExited>>
pvars == <<products, productSeq, pReqs, pResp, delOk, pListening, pSignals,
           closeCallbacks, pDisconnects, pDisconnecting, pExited>>
vars == <<uvars, pvars>>

\* ------------------------------------------------------------ strings
Rep(c, n) == [i \in 1..n |-> c]

DigitChars == <<"0", "1", "2", "3", "4", "5", "6", "7", "8", "9">>
IsDigit(c) == \E i \in 1..Len(DigitChars) : DigitChars[i] = c
DigitVal(c) == (CHOOSE i \in 1..Len(DigitChars) : DigitChars[i] = c) - 1

\* A parsed number is <<n>>; NaN is the empty tuple.
NaN == <<>>
Num(n) == <<n>>
isNaN(v) == v = NaN

RECURSIVE SkipSpaces(_)
SkipSpaces(s) ==
  IF s # <<>> /\ Head(s) = " " THEN SkipSpaces(Tail(s)) ELSE s

RECURSIVE DigitPrefix(_)
DigitPrefix(s) ==
  IF s # <<>> /\ IsDigit(Head(s)) THEN <<Head(s)>> \o DigitPrefix(Tail(s))
  ELSE <<>>

RECURSIVE DigitsValue(_, _)
DigitsValue(s, acc) ==
  IF s = <<>> THEN acc ELSE DigitsValue(Tail(s), 10 * acc + DigitVal(Head(s)))

\* JavaScript parseInt(val, 10): leading white space is skipped, a sign is
\* read, then the longest run of digits; what follows the run is ignored,
\* and NaN is the answer when there is no digit.
ParseInt(val) ==
  LET t == SkipSpaces(val)
      neg == t # <<>> /\ Head(t) = "-"
      u == IF t # <<>> /\ Head(t) \in {"-", "+"} THEN Tail(t) ELSE t
      d == DigitPrefix(u)
  IN  IF d = <<>> THEN NaN
      ELSE IF neg THEN Num(0 - DigitsValue(d, 0)) ELSE Num(DigitsValue(d, 0))

RECURSIVE TrimStart(_)
TrimStart(s) == IF s # <<>> /\ Head(s) = " " THEN TrimStart(Tail(s)) ELSE s

RECURSIVE TrimEnd(_)
TrimEnd(s) ==
  IF s # <<>> /\ s[Len(s)] = " " THEN TrimEnd(SubSeq(s, 1, Len(s) - 1)) ELSE s

\* String.prototype.trim
Trim(s) == TrimEnd(TrimStart(s))

\* ------------------------------------------------------------ bags
EmptyBag == [x \in {} |-> 0]
BagSize(b) ==
  LET RECURSIVE Sum(_)
      Sum(S) == IF S = {} THEN 0
                ELSE LET x == CHOOSE y \in S : TRUE IN b[x] + Sum(S \ {x})
  IN  Sum(DOMAIN b)
\* how many requests of the bag are of operation op
BagCount(b, op) == BagSize([x \in {y \in DOMAIN b : y.op = op} |-> b[x]])
BagAdd(b, x) ==
  [y \in DOMAIN b \cup {x} |->
     IF y = x THEN (IF x \in DOMAIN b THEN b[x] + 1 ELSE 1) ELSE b[y]]
BagRemove(b, x) ==
  IF b[x] = 1 THEN [y \in DOMAIN b \ {x} |-> b[y]]
  ELSE [b EXCEPT ![x] = b[x] - 1]

\* A record holding the fields of data over those of old (Prisma applies the
\* fields that are supplied and leaves the others).
Merge(old, data) ==
  [f \in DOMAIN old \cup DOMAIN data |->
     IF f \in DOMAIN data THEN data[f] ELSE old[f]]

\* ============================================================ users server
\* ------------------------------------------------------------ inputs
EmailA == <<"a", "@", "b", ".", "c">>
EmailInputs == {EmailA, <<"a", "@", "b">>}
UserNameInputs == {<<"a">>, <<"a", "b">>}
UserFields == {"email", "name"}
UserBodies ==
  UNION {{b \in [S -> EmailInputs \cup UserNameInputs] :
            /\ ("email" \in S => b["email"] \in EmailInputs)
            /\ ("name" \in S => b["name"] \in UserNameInputs)} :
         S \in SUBSET UserFields}
\* the :id path parameter as the client sends it
IdInputs == {<<"1">>, <<"1", "a">>, <<"a">>}

\* z.string().email(), as far as the inputs tell: one "@", a local part, and
\* a domain of labels separated by "."
IsEmail(s) ==
  \E i \in 2..(Len(s) - 1) :
    /\ s[i] = "@"
    /\ \A j \in 1..Len(s) : s[j] = "@" => j = i
    /\ \E k \in (i + 2)..(Len(s) - 1) : s[k] = "."
    /\ s[i + 1] # "." /\ s[Len(s)] # "."

UserNameMin == 2
\* the constraint userSchema puts on one supplied field
UserFieldOk(f, v) ==
  CASE f = "email" -> IsEmail(v)
    [] f = "name" -> Len(v) >= UserNameMin

\* userSchema.parse: the fields in error (none: the body is valid); email is
\* required, name is optional
userSchemaErrors(body) ==
  {f \in UserFields :
     IF f \in DOMAIN body THEN ~UserFieldOk(f, body[f]) ELSE f = "email"}

\* idSchema.parse: the parsed id, or NaN for "Invalid ID"
idSchemaParse(idStr) == ParseInt(idStr)

NoData == [f \in {} |-> <<>>]
NoUResp == [op |-> "none", status |-> 0, idStr |-> <<>>, body |-> NoData,
            found |-> FALSE, changed |-> FALSE]
UReq(op, idStr, id, data) == [op |-> op, idStr |-> idStr, id |-> id, data |-> data]

UAccepting == uListening /\ ~uExited /\ BagSize(uReqs) < MaxInflight
UFound(id) == ~isNaN(id) /\ id[1] \in DOMAIN users

\* creations in flight (the user table holds at most MaxId ids)
UCreating == BagCount(uReqs, "POST")

InitU ==
  /\ users = [i \in {} |-> NoData]
  /\ userSeq = 1
  /\ uReqs = EmptyBag
  /\ uResp = NoUResp
  /\ uListening = TRUE
  /\ uSignals = 0
  /\ uDisconnects = 0
  /\ uDisconnecting = 0
  /\ uExited = FALSE

\* router.get('/'): the list is asked of the store
UsersGet ==
  /\ UAccepting
  /\ uReqs' = BagAdd(uReqs, UReq("GET", <<>>, NaN, NoData))
  /\ UNCHANGED <<pvars, users, userSeq, uResp, uListening, uSignals, uDisconnects,
                 uDisconnecting, uExited>>

\* router.post('/'): userSchema.parse, then prisma.user.create is issued
UsersPost ==
  \E body \in UserBodies :
    /\ UAccepting
    /\ userSchemaErrors(body) = {} => userSeq + UCreating < MaxId + 1
    /\ IF userSchemaErrors(body) # {}
       THEN /\ uResp' = [NoUResp EXCEPT !.op = "POST", !.status = 400,
                                        !.body = body]
            /\ UNCHANGED uReqs
       ELSE /\ uReqs' = BagAdd(uReqs, UReq("POST", <<>>, NaN, body))
            /\ UNCHANGED uResp
    /\ UNCHANGED <<pvars, users, userSeq, uListening, uSignals, uDisconnects,
                   uDisconnecting, uExited>>

\* router.put('/:id'): idSchema.parse, userSchema.parse, then
\* prisma.user.update is issued
UsersPut ==
  \E idStr \in IdInputs, body \in UserBodies :
    LET id == idSchemaParse(idStr) IN
    /\ UAccepting
    /\ IF isNaN(id) \/ userSchemaErrors(body) # {}
       THEN /\ uResp' = [NoUResp EXCEPT !.op = "PUT", !.status = 400,
                                        !.idStr = idStr, !.body = body,
                                        !.found = UFound(id)]
            /\ UNCHANGED uReqs
       ELSE /\ uReqs' = BagAdd(uReqs, UReq("PUT", idStr, id, body))
            /\ UNCHANGED uResp
    /\ UNCHANGED <<pvars, users, userSeq, uListening, uSignals, uDisconnects,
                   uDisconnecting, uExited>>

\* router.delete('/:id'): idSchema.parse, then prisma.user.delete is issued
UsersDelete ==
  \E idStr \in IdInputs :
    LET id == idSchemaParse(idStr) IN
    /\ UAccepting
    /\ IF isNaN(id)
       THEN /\ uResp' = [NoUResp EXCEPT !.op = "DELETE", !.status = 400,
                                        !.idStr = idStr]
            /\ UNCHANGED uReqs
       ELSE /\ uReqs' = BagAdd(uReqs, UReq("DELETE", idStr, id, NoData))
            /\ UNCHANGED uResp
    /\ UNCHANGED <<pvars, users, userSeq, uListening, uSignals, uDisconnects,
                   uDisconnecting, uExited>>

\* The status a users handler answers with once its store call returns.
\* A store error (P2025 of update and delete on a missing record included)
\* is no ZodError, so the catch block answers 500.
UStatus(r, found) ==
  CASE r.op = "GET" -> 200
    [] r.op = "POST" -> 201
    [] r.op = "PUT" -> IF found THEN 200 ELSE 500
    [] r.op = "DELETE" -> IF found THEN 204 ELSE 500

\* The user table after the store call of r.  The constraints of the Prisma
\* schema on the table (a unique email) are not part of these sources and
\* are not modelled.
UStore(r) ==
  CASE r.op = "POST" ->
         [i \in DOMAIN users \cup {userSeq} |->
            IF i = userSeq THEN r.data ELSE users[i]]
    [] r.op = "PUT" /\ UFound(r.id) ->
         [users EXCEPT ![r.id[1]] = Merge(users[r.id[1]], r.data)]
    [] r.op = "DELETE" /\ UFound(r.id) ->
         [i \in DOMAIN users \ {r.id[1]} |-> users[i]]
    [] OTHER -> users

\* The store executes a handler's call and the handler answers.
UsersComplete ==
  \E r \in DOMAIN uReqs :
    /\ ~uExited
    /\ users' = UStore(r)
    /\ userSeq' = IF r.op = "POST" THEN userSeq + 1 ELSE userSeq
    /\ uReqs' = BagRemove(uReqs, r)
    /\ uResp' = [op |-> r.op, status |-> UStatus(r, UFound(r.id)),
                 idStr |-> r.idStr, body |-> r.data, found |-> UFound(r.id),
                 changed |-> users' # users]
    /\ UNCHANGED <<pvars, uListening, uSignals, uDisconnects, uDisconnecting, uExited>>

\* A store call still outstanding when $disconnect() was called may be
\* rejected by the closing client: the catch block answers 500.
UsersStoreError ==
  \E r \in DOMAIN uReqs :
    /\ ~uExited
    /\ uDisconnects > 0
    /\ uReqs' = BagRemove(uReqs, r)
    /\ uResp' = [op |-> r.op, status |-> 500, idStr |-> r.idStr,
                 body |-> r.data, found |-> UFound(r.id), changed |-> FALSE]
    /\ UNCHANGED <<pvars, users, userSeq, uListening, uSignals, uDisconnects,
                   uDisconnecting, uExited>>

\* shutdown, on SIGTERM or SIGINT: server.close() stops the listener and
\* returns at once; prisma.$disconnect() is called and awaited.
shutdown ==
  /\ ~uExited
  /\ uSignals < MaxSignals
  /\ uSignals' = uSignals + 1
  /\ uListening' = FALSE
  /\ uDisconnects' = uDisconnects + 1
  /\ uDisconnecting' = uDisconnecting + 1
  /\ UNCHANGED <<pvars, users, userSeq, uReqs, uResp, uExited>>

\* the awaited $disconnect() resolves: process.exit(0)
shutdownExit ==
  /\ ~uExited
  /\ uDisconnecting > 0
  /\ uDisconnecting' = uDisconnecting - 1
  /\ uExited' = TRUE
  /\ UNCHANGED <<pvars, users, userSeq, uReqs, uResp, uListening, uSignals,
                 uDisconnects>>

NextU ==
  \/ UsersGet
  \/ UsersPost
  \/ UsersPut
  \/ UsersDelete
  \/ UsersComplete
  \/ UsersStoreError
  \/ shutdown
  \/ shutdownExit

\* ============================================================ products server
\* ------------------------------------------------------------ inputs
NameMin == 3
NameMax == 100
CategoryMin == 2
LowStockLimit == 10
\* a number counted in halves: 2 * n is the integer n
Half(n) == 2 * n

ProductFields == {"name", "category", "price", "stock", "description"}
NameInputs == {<<"a", "b">>, <<"a", "b", "c">>, <<" ", "a", " ">>,
               Rep("a", NameMax + 1)}
CategoryInputs == {<<"T">>, <<"T", "o">>}
PriceInputs == {Half(-1), 0, Half(2)}
StockInputs == {Half(-1), 1, Half(1), Half(12)}
DescriptionInputs == {<<"d">>}
FieldInputs(f) ==
  CASE f = "name" -> NameInputs
    [] f = "category" -> CategoryInputs
    [] f = "price" -> PriceInputs
    [] f = "stock" -> StockInputs
    [] f = "description" -> DescriptionInputs
\* every body supplying exactly the fields S
RECURSIVE BodiesOver(_)
BodiesOver(S) ==
  IF S = {} THEN {NoData}
  ELSE LET f == CHOOSE g \in S : TRUE
       IN  {Merge(b, [x \in {f} |-> v]) :
              b \in BodiesOver(S \ {f}), v \in FieldInputs(f)}
\* bodies of POST /products: the body of a valid product with at most one
\* field replaced or left out
BaseBody ==
  [name |-> <<"a", "b", "c">>, category |-> <<"T", "o">>, price |-> Half(2),
   stock |-> Half(1), description |-> <<"d">>]
Without(b, f) == [g \in DOMAIN b \ {f} |-> b[g]]
CreateBodies ==
  {BaseBody}
    \cup {Without(BaseBody, f) : f \in ProductFields}
    \cup UNION {{Merge(BaseBody, [x \in {f} |-> v]) : v \in FieldInputs(f)} :
               f \in ProductFields}
\* bodies of PUT /products/:id: at most one field
UpdateBodies ==
  UNION {BodiesOver(S) : S \in {T \in SUBSET ProductFields :
                                  Cardinality(T) <= 1}}

\* FieldOk with price checked as nonnegative instead of positive
FieldOkPriceNonnegative(f, v) ==
  CASE f = "name" -> Len(v) >= NameMin /\ Len(v) <= NameMax
    [] f = "category" -> Len(v) >= CategoryMin
    [] f = "price" -> v >= 0
    [] f = "stock" -> v % 2 = 0 /\ v >= 0
    [] f = "description" -> TRUE

\* the constraint productSchema puts on one supplied field
FieldOk(f, v) ==
  CASE f = "name" -> Len(v) >= NameMin /\ Len(v) <= NameMax
    [] f = "category" -> Len(v) >= CategoryMin
    [] f = "price" -> v > 0
    [] f = "stock" -> v % 2 = 0 /\ v >= 0
    [] f = "description" -> TRUE

\* productSchema.parse (partial: productSchema.partial().parse): the fields
\* in error; none means the body is valid
productSchemaErrors(body, partial) ==
  {f \in ProductFields :
     IF f \in DOMAIN body THEN ~FieldOk(f, body[f])
     ELSE ~partial /\ f # "description"}

\* the request supplies a price <= 0 or a stock < 0
BadNumber(body) ==
  \/ "price" \in DOMAIN body /\ body["price"] <= 0
  \/ "stock" \in DOMAIN body /\ body["stock"] < 0

NoPResp == [op |-> "none", status |-> 0, badNumber |-> FALSE,
            changed |-> FALSE, afterDelete |-> FALSE,
            totalProducts |-> 0, lowStock |-> 0, totalValue |-> 0]
PReq(op, id, data) ==
  [op |-> op, id |-> id, data |-> data, pc |-> "store",
   afterDelete |-> FALSE, totalProducts |-> 0, lowStock |-> 0]

PAccepting == pListening /\ ~pExited /\ BagSize(pReqs) < MaxInflight
PFound(id) == ~isNaN(id) /\ id[1] \in DOMAIN products
\* creations in flight (the product table holds at most MaxId ids)
PCreating == BagCount(pReqs, "POST")

InitP ==
  /\ products = [i \in {} |-> NoData]
  /\ productSeq = 1
  /\ pReqs = EmptyBag
  /\ pResp = NoPResp
  /\ delOk = [i \in 1..MaxId |-> 0]
  /\ pListening = TRUE
  /\ pSignals = 0
  /\ closeCallbacks = 0
  /\ pDisconnects = 0
  /\ pDisconnecting = 0
  /\ pExited = FALSE

\* router.get('/products'): findMany is issued
ProductsGet ==
  /\ PAccepting
  /\ pReqs' = BagAdd(pReqs, PReq("GET", NaN, NoData))
  /\ UNCHANGED <<uvars, products, productSeq, pResp, delOk, pListening,
                 pSignals, closeCallbacks, pDisconnects, pDisconnecting,
                 pExited>>

\* router.get('/stats'): the first count is issued
StatsGet ==
  /\ PAccepting
  /\ pReqs' = BagAdd(pReqs, [PReq("STATS", NaN, NoData) EXCEPT !.pc = "count"])
  /\ UNCHANGED <<uvars, products, productSeq, pResp, delOk, pListening,
                 pSignals, closeCallbacks, pDisconnects, pDisconnecting,
                 pExited>>

\* validatedData after productSchema.parse and the trim of name
Sanitized(body) == [body EXCEPT !["name"] = Trim(body["name"])]

\* router.post('/products'): productSchema.parse, name.trim(), then
\* prisma.product.create is issued
ProductsPost ==
  \E body \in CreateBodies :
    /\ PAccepting
    /\ productSchemaErrors(body, FALSE) = {} => productSeq + PCreating < MaxId + 1
    /\ IF productSchemaErrors(body, FALSE) # {}
       THEN /\ pResp' = [NoPResp EXCEPT !.op = "POST", !.status = 400,
                                        !.badNumber = BadNumber(body)]
            /\ UNCHANGED pReqs
       ELSE /\ pReqs' = BagAdd(pReqs, PReq("POST", NaN, Sanitized(body)))
            /\ UNCHANGED pResp
    /\ UNCHANGED <<uvars, products, productSeq, delOk, pListening, pSignals,
                   closeCallbacks, pDisconnects, pDisconnecting, pExited>>

\* router.put('/products/:id'): productSchema.partial().parse, then
\* prisma.product.update is issued with parseInt(id) (no radix: the same
\* number as parseInt(id, 10) for every id without a 0x prefix)
ProductsPut ==
  \E idStr \in IdInputs, body \in UpdateBodies :
    /\ PAccepting
    /\ IF productSchemaErrors(body, TRUE) # {}
       THEN /\ pResp' = [NoPResp EXCEPT !.op = "PUT", !.status = 400,
                                        !.badNumber = BadNumber(body)]
            /\ UNCHANGED pReqs
       ELSE /\ pReqs' = BagAdd(pReqs, PReq("PUT", ParseInt(idStr), body))
            /\ UNCHANGED pResp
    /\ UNCHANGED <<uvars, products, productSeq, delOk, pListening, pSignals,
                   closeCallbacks, pDisconnects, pDisconnecting, pExited>>

\* a DELETE of this id was answered 200 before
Deleted(id) == ~isNaN(id) /\ id[1] \in DOMAIN delOk /\ delOk[id[1]] > 0

\* router.delete('/products/:id'): prisma.product.delete is issued with
\* parseInt(id)
ProductsDelete ==
  \E idStr \in IdInputs :
    LET id == ParseInt(idStr) IN
    /\ PAccepting
    /\ pReqs' = BagAdd(pReqs, [PReq("DELETE", id, NoData)
                                 EXCEPT !.afterDelete = Deleted(id)])
    /\ UNCHANGED <<uvars, products, productSeq, pResp, delOk, pListening,
                   pSignals, closeCallbacks, pDisconnects, pDisconnecting,
                   pExited>>

\* PStatus with a delete that succeeds whether or not the record exists
PStatusDeleteMany(r, found) ==
  CASE r.op = "GET" -> 200
    [] r.op = "POST" -> 201
    [] r.op = "PUT" -> IF isNaN(r.id) THEN 500 ELSE IF found THEN 200 ELSE 404
    [] r.op = "DELETE" -> IF isNaN(r.id) THEN 500 ELSE 200

\* The status a products handler answers with once its store call returns.
\* update and delete reject with P2025 when no record has the id (404); a
\* NaN id is rejected by the client's own argument validation, an error
\* without that code (500).
PStatus(r, found) ==
  CASE r.op = "GET" -> 200
    [] r.op = "POST" -> 201
    [] r.op \in {"PUT", "DELETE"} ->
         IF isNaN(r.id) THEN 500 ELSE IF found THEN 200 ELSE 404

\* prisma.product.create: the record with its store-assigned createdAt
Created(data) == Merge(data, [createdAt |-> productSeq])

\* Updated with an unsupplied stock written as 0
UpdatedDefaultsStock(old, data) == Merge(old, Merge([stock |-> 0], data))

\* prisma.product.update: the supplied fields over the record
Updated(old, data) == Merge(old, data)

\* The product table after the store call of r.
PStore(r) ==
  CASE r.op = "POST" ->
         [i \in DOMAIN products \cup {productSeq} |->
            IF i = productSeq THEN Created(r.data) ELSE products[i]]
    [] r.op = "PUT" /\ PFound(r.id) ->
         [products EXCEPT ![r.id[1]] = Updated(products[r.id[1]], r.data)]
    [] r.op = "DELETE" /\ PFound(r.id) ->
         [i \in DOMAIN products \ {r.id[1]} |-> products[i]]
    [] OTHER -> products

\* The store executes the call of a products, create, update or delete
\* handler and the handler answers.
ProductsComplete ==
  \E r \in DOMAIN pReqs :
    /\ ~pExited
    /\ r.op \in {"GET", "POST", "PUT", "DELETE"}
    /\ products' = PStore(r)
    /\ productSeq' = IF r.op = "POST" THEN productSeq + 1 ELSE productSeq
    /\ pReqs' = BagRemove(pReqs, r)
    /\ pResp' = [NoPResp EXCEPT !.op = r.op,
                                !.status = PStatus(r, PFound(r.id)),
                                !.badNumber = BadNumber(r.data),
                                !.changed = (products' # products),
                                !.afterDelete = r.afterDelete]
    /\ delOk' = IF r.op = "DELETE" /\ PStatus(r, PFound(r.id)) = 200
                THEN [delOk EXCEPT ![r.id[1]] = @ + 1] ELSE delOk
    /\ UNCHANGED <<uvars, pListening, pSignals, closeCallbacks, pDisconnects,
                   pDisconnecting, pExited>>

\* prisma.product.count()
CountAll == Cardinality(DOMAIN products)
\* prisma.product.count({ where: { stock: { lt: 10 } } })
CountLowStock ==
  Cardinality({i \in DOMAIN products : products[i].stock < Half(LowStockLimit)})
\* all.reduce((acc, curr) => acc + Number(curr.price) * curr.stock, 0), a sum
\* of products of halves: counted in quarters
RECURSIVE SumValue(_)
SumValue(S) ==
  IF S = {} THEN 0
  ELSE LET i == CHOOSE j \in S : TRUE
       IN  products[i].price * products[i].stock + SumValue(S \ {i})
TotalValue == SumValue(DOMAIN products)

\* the stats handler resumes with the answer of one store read and issues
\* the next, or responds
StatsStep ==
  \E r \in DOMAIN pReqs :
    /\ ~pExited
    /\ r.op = "STATS"
    /\ CASE r.pc = "count" ->
              /\ pReqs' = BagAdd(BagRemove(pReqs, r),
                                 [r EXCEPT !.pc = "lowStock",
                                           !.totalProducts = CountAll])
              /\ UNCHANGED pResp
         [] r.pc = "lowStock" ->
              /\ pReqs' = BagAdd(BagRemove(pReqs, r),
                                 [r EXCEPT !.pc = "findMany",
                                           !.lowStock = CountLowStock])
              /\ UNCHANGED pResp
         [] r.pc = "findMany" ->
              /\ pReqs' = BagRemove(pReqs, r)
              /\ pResp' = [NoPResp EXCEPT !.op = "STATS", !.status = 200,
                                          !.totalProducts = r.totalProducts,
                                          !.lowStock = r.lowStock,
                                          !.totalValue = TotalValue]
    /\ UNCHANGED <<uvars, products, productSeq, delOk, pListening, pSignals,
                   closeCallbacks, pDisconnects, pDisconnecting, pExited>>

\* shutDown, on SIGTERM or SIGINT: server.close(callback) stops the listener
\* and keeps the callback for the 'close' event
shutDown ==
  /\ ~pExited
  /\ pSignals < MaxSignals
  /\ pSignals' = pSignals + 1
  /\ pListening' = FALSE
  /\ closeCallbacks' = closeCallbacks + 1
  /\ UNCHANGED <<uvars, products, productSeq, pReqs, pResp, delOk,
                 pDisconnects, pDisconnecting, pExited>>

\* 'close' is emitted once no request is in flight: each callback kept calls
\* prisma.$disconnect()
serverClosed ==
  /\ ~pExited
  /\ closeCallbacks > 0
  /\ pReqs = EmptyBag
  /\ pDisconnects' = pDisconnects + closeCallbacks
  /\ pDisconnecting' = pDisconnecting + closeCallbacks
  /\ closeCallbacks' = 0
  /\ UNCHANGED <<uvars, products, productSeq, pReqs, pResp, delOk,
                 pListening, pSignals, pExited>>

\* a $disconnect() promise resolves: process.exit(0)
shutDownExit ==
  /\ ~pExited
  /\ pDisconnecting > 0
  /\ pDisconnecting' = pDisconnecting - 1
  /\ pExited' = TRUE
  /\ UNCHANGED <<uvars, products, productSeq, pReqs, pResp, delOk,
                 pListening, pSignals, closeCallbacks, pDisconnects>>

NextP ==
  \/ ProductsGet
  \/ StatsGet
  \/ ProductsPost
  \/ ProductsPut
  \/ ProductsDelete
  \/ ProductsComplete
  \/ StatsStep
  \/ shutDown
  \/ serverClosed
  \/ shutDownExit

\* ============================================================ specifications
Init == InitU /\ InitP
SpecUsers == Init /\ [][NextU]_vars
SpecProducts == Init /\ [][NextP]_vars

\* ============================================================ claims
\* the path parameter is a base-10 integer string
IsBase10Integer(idStr) ==
  idStr # <<>> /\ \A i \in 1..Len(idStr) : IsDigit(idStr[i])

\* every field a users body supplies satisfies its constraint
UserFieldsOk(body) == \A f \in DOMAIN body : UserFieldOk(f, body[f])

\* C1: a PUT or DELETE on /:id whose id is a well-formed integer matching no
\* persisted record (for PUT, with a valid body) is answered 404 and leaves
\* the store unchanged (stated on the users responses; the products
\* handlers answer P2025 with 404, see PStatus).
C1_MissingIdAnswers404 ==
  (/\ uResp.op \in {"PUT", "DELETE"}
   /\ IsBase10Integer(uResp.idStr)
   /\ ~uResp.found
   /\ uResp.op = "PUT" => userSchemaErrors(uResp.body) = {})
    => uResp.status = 404 /\ ~uResp.changed

\* C2: a PUT or DELETE whose path id is not a base-10 integer string is
\* answered 400 and no store call is issued for it.
C2_MalformedIdAnswers400 ==
  /\ (uResp.op \in {"PUT", "DELETE"} /\ ~IsBase10Integer(uResp.idStr))
       => uResp.status = 400
  /\ \A r \in DOMAIN uReqs :
       r.op \in {"PUT", "DELETE"} => IsBase10Integer(r.idStr)

\* C3: the database handle is disconnected, and the process exits, only
\* after the HTTP server stopped accepting requests and every handler in
\* flight has answered.
C3_DisconnectAfterDrain ==
  /\ (uDisconnects > 0 \/ uExited) => (~uListening /\ uReqs = EmptyBag)
  /\ (pDisconnects > 0 \/ pExited) => (~pListening /\ pReqs = EmptyBag)

\* C3 on the products server alone, whose shutDown disconnects in the
\* callback of server.close.
ProductsDisconnectAfterDrain ==
  (pDisconnects > 0 \/ pExited) => (~pListening /\ pReqs = EmptyBag)

\* C4: whatever shutdown signals arrive, $disconnect is called exactly once:
\* never twice, and once when the process has exited.
C4_DisconnectOnce ==
  /\ uDisconnects <= 1 /\ (uExited => uDisconnects = 1)
  /\ pDisconnects <= 1 /\ (pExited => pDisconnects = 1)

\* C4 on the products server alone.
ProductsDisconnectOnce == pDisconnects <= 1

\* C5: every persisted product has price > 0 and an integer stock >= 0; a
\* create or update supplying price <= 0 or stock < 0 is answered 400, changes
\* nothing, and no store call is issued for it.
C5_PriceStockInvariant ==
  /\ \A i \in DOMAIN products :
       /\ products[i].price > 0
       /\ products[i].stock % 2 = 0
       /\ products[i].stock >= 0
  /\ (pResp.op \in {"POST", "PUT"} /\ pResp.badNumber)
       => (pResp.status = 400 /\ ~pResp.changed)
  /\ \A r \in DOMAIN pReqs : r.op \in {"POST", "PUT"} => ~BadNumber(r.data)

\* C5 witness: with a product persisted, an update supplying a bad number
\* was answered 400.
C5_Witness ==
  /\ DOMAIN products # {}
  /\ pResp.op = "PUT" /\ pResp.badNumber /\ pResp.status = 400

\* C6: the step in which a PUT /products/:id is answered 200 leaves every
\* other record as it was, keeps the set of ids, and on the record with that
\* id keeps every field the body does not supply (createdAt, never supplied,
\* included).
C6_UpdateFrame ==
  [][\A r \in DOMAIN pReqs :
       (/\ r.op = "PUT"
        /\ pReqs' = BagRemove(pReqs, r)
        /\ pResp'.op = "PUT" /\ pResp'.status = 200)
         => /\ DOMAIN products' = DOMAIN products
            /\ r.id[1] \in DOMAIN products
            /\ \A i \in DOMAIN products \ {r.id[1]} :
                 products'[i] = products[i]
            /\ DOMAIN products'[r.id[1]] =
                 DOMAIN products[r.id[1]] \cup DOMAIN r.data
            /\ \A f \in DOMAIN products[r.id[1]] \ DOMAIN r.data :
                 products'[r.id[1]][f] = products[r.id[1]][f]
            /\ \A f \in DOMAIN r.data :
                 products'[r.id[1]][f] = r.data[f]]_vars

\* C6 witness: with two products persisted, a PUT (its body supplies one
\* field at most) was answered 200 and changed the store.
C6_Witness ==
  /\ Cardinality(DOMAIN products) = 2
  /\ pResp.op = "PUT" /\ pResp.status = 200 /\ pResp.changed

\* C8: no product id has two DELETE requests answered 200, and a DELETE
\* received after a DELETE of its id was answered 200 is answered 404.
C8_DeleteOnce ==
  /\ \A i \in DOMAIN delOk : delOk[i] <= 1
  /\ (pResp.op = "DELETE" /\ pResp.afterDelete) => pResp.status = 404

\* C8 witness: a DELETE received after the successful one was answered 404.
C8_Witness ==
  /\ \E i \in DOMAIN delOk : delOk[i] = 1
  /\ pResp.op = "DELETE" /\ pResp.afterDelete /\ pResp.status = 404

\* C7: a PUT on an existing id whose body supplies any subset of the fields,
\* each satisfying its constraint, is answered 200 (stated on the users
\* responses; productSchema.partial() makes it true of the products ones).
C7_PartialBodyAccepted ==
  (/\ uResp.op = "PUT"
   /\ IsBase10Integer(uResp.idStr)
   /\ uResp.found
   /\ UserFieldsOk(uResp.body))
    => uResp.status = 200

\* C9: the three numbers of a stats response describe one set of products;
\* in particular lowStock <= totalProducts, and no value without a product.
C9_StatsOneSnapshot ==
  pResp.op = "STATS"
    => /\ pResp.lowStock <= pResp.totalProducts
       /\ pResp.totalProducts = 0 => pResp.totalValue = 0

\* C10: every persisted product's name has length in [3,100].
C10_NameLength ==
  \A i \in DOMAIN products :
    /\ Len(products[i].name) >= NameMin
    /\ Len(products[i].name) <= NameMax

====
